---- MODULE Spec2Model ----
(***************************************************************************)
(* A model of the parser-combinator library of parsec.go: the StringVessel *)
(* (input, position, state), the combinators as parser values, and the     *)
(* invocation of a parser value on a vessel.                               *)
(*                                                                         *)
(* A Go string is modelled as the sequence of its characters (code         *)
(* points); its byte length is the sum of the UTF-8 widths of its          *)
(* characters.  Only well-formed UTF-8 strings are modelled.               *)
(***************************************************************************)
EXTENDS Integers, Sequences, FiniteSets

VARIABLES vessel, pc, call, pre, out, ok

vars == <<vessel, pc, call, pre, out, ok>>

(***************************************************************************)
(* Bounds of the model.                                                    *)
(***************************************************************************)
\* the longest of the inputs of every shape
MaxLen == 3

\* the characters of the inputs: 'a', ' ', '(', ')' and the two-byte U+00E9
Chars == {97, 32, 40, 41, 233}

\* every input of at most MaxLen characters
ShortInputs == UNION {[1..n -> Chars] : n \in 0..MaxLen}

\* the most elements of a list input
MaxReps == 3

RECURSIVE Rep(_, _)
\* k copies of the string s, one after the other
Rep(s, k) == IF k = 0 THEN <<>> ELSE s \o Rep(s, k - 1)

\* lists with a trailing delimiter: "a)a)a)", and with two-byte characters
ListInputs ==
    {Rep(e \o d, k) : e \in {<<97>>, <<233>>}, d \in {<<41>>, <<233>>}, k \in 0..MaxReps}

Inputs == ShortInputs \cup ListInputs

\* values of the user-defined parse state
States == {0, 1}

(***************************************************************************)
(* Go strings.                                                             *)
(***************************************************************************)
\* the number of bytes of the UTF-8 encoding of a character
UTF8Len(c) == IF c < 128 THEN 1 ELSE IF c < 2048 THEN 2 ELSE IF c < 65536 THEN 3 ELSE 4

RECURSIVE ByteLen(_)
\* len(s) of a Go string: its length in bytes
ByteLen(s) == IF s = <<>> THEN 0 ELSE UTF8Len(Head(s)) + ByteLen(Tail(s))

\* strings.HasPrefix(s, prefix)
HasPrefix(s, prefix) ==
    /\ Len(prefix) <= Len(s)
    /\ SubSeq(s, 1, Len(prefix)) = prefix

\* unicode.IsSpace, on the Latin-1 range
IsSpace(c) == c \in {9, 10, 11, 12, 13, 32, 133, 160}

\* unicode.IsLetter, on the Latin-1 range
IsLetter(c) ==
    \/ c \in 65..90
    \/ c \in 97..122
    \/ c \in {170, 181, 186}
    \/ (c \in 192..255 /\ c \notin {215, 247})

\* the predicates handed to Satisfy, by name
Check(check, c) ==
    CASE check = "IsSpace" -> IsSpace(c)
      [] check = "IsLetter" -> IsLetter(c)
      [] check = "Always" -> TRUE
      [] OTHER -> FALSE

(***************************************************************************)
(* Output values.  Go's interface{} results are tagged by their dynamic    *)
(* type: nil, int (a character), string, []interface{} (vector.Data()) and *)
(* *vector.Vector.                                                         *)
(***************************************************************************)
Nil == [kind |-> "nil", rune |-> 0, str |-> <<>>, list |-> <<>>]

IntOut(c) == [kind |-> "int", rune |-> c, str |-> <<>>, list |-> <<>>]

StrOut(s) == [kind |-> "string", rune |-> 0, str |-> s, list |-> <<>>]

SliceOut(l) == [kind |-> "slice", rune |-> 0, str |-> <<>>, list |-> l]

VectorOut(l) == [kind |-> "vector", rune |-> 0, str |-> <<>>, list |-> l]

(***************************************************************************)
(* Parser values.  A Parser is a closure; it is modelled by the record of  *)
(* the combinator that built it and the values it closed over.             *)
(***************************************************************************)
Parser(op, check, str, num, flag, ps) ==
    [op |-> op, check |-> check, str |-> str, num |-> num, flag |-> flag, ps |-> ps]

Satisfy(check) == Parser("Satisfy", check, <<>>, 0, FALSE, <<>>)

Whitespace == Parser("Whitespace", "", <<>>, 0, FALSE, <<>>)

Lexeme(match) == Parser("Lexeme", "", <<>>, 0, FALSE, <<match>>)

Many(match) == Parser("Many", "", <<>>, 0, FALSE, <<match>>)

SepBy(delim, match) == Parser("SepBy", "", <<>>, 0, FALSE, <<delim, match>>)

Any(parsers) == Parser("Any", "", <<>>, 0, FALSE, parsers)

All(parsers) == Parser("All", "", <<>>, 0, FALSE, parsers)

Collect(parsers) == Parser("Collect", "", <<>>, 0, FALSE, parsers)

Try(match) == Parser("Try", "", <<>>, 0, FALSE, <<match>>)

Between(begin, end, match) == Parser("Between", "", <<>>, 0, FALSE, <<begin, end, match>>)

String(str) == Parser("String", "", str, 0, FALSE, <<>>)

Symbol(str) == Lexeme(String(str))

Parens(match) == Lexeme(Between(Symbol(<<40>>), Symbol(<<41>>), match))

Identifier == Parser("Identifier", "", <<>>, 0, FALSE, <<>>)

R(parser) == Parser("R", "", <<>>, 0, FALSE, <<parser>>)

\* a parser written by a grammar author: it sets the vessel's State to st
\* and reports matched = flag
SetsState(st, flag) == Parser("SetsState", "", <<>>, st, flag, <<>>)

\* the vessel's own look-ahead operations, called directly
GetCall(n) == Parser("Get", "", <<>>, n, FALSE, <<>>)

NextCall == Parser("Next", "", <<>>, 0, FALSE, <<>>)

NoCall == Parser("", "", <<>>, 0, FALSE, <<>>)

(***************************************************************************)
(* The StringVessel.  trace and altAt are history fields: trace holds the  *)
(* vessel operations that changed Position.Offset since the current call   *)
(* began, altAt the offsets at which Any invoked an alternative.           *)
(***************************************************************************)
\* the Spec of the vessels of this model
TheSpec == [IdentStart |-> Satisfy("IsLetter"), IdentLetter |-> Satisfy("IsLetter")]

NewPosition == [Name |-> "", Line |-> 0, Column |-> 0, Offset |-> 0]

NewVessel(input) ==
    [state |-> 0, input |-> input, position |-> NewPosition, spec |-> TheSpec,
     trace |-> {}, altAt |-> {}]

GetState(self) == self.state

SetState(self, st) == [self EXCEPT !.state = st]

\* the input from the character at index Offset on; "" when there is none
GetInput(self) ==
    IF self.position.Offset \in 0..(Len(self.input) - 1)
    THEN SubSeq(self.input, self.position.Offset + 1, Len(self.input))
    ELSE <<>>

\* the characters with index Offset .. Offset+i, after a check of the byte length
Get(self, i) ==
    IF ByteLen(self.input) < self.position.Offset + i
    THEN [input |-> <<>>, ok |-> FALSE]
    ELSE LET lo == IF self.position.Offset < 0 THEN 0 ELSE self.position.Offset
             hi == IF self.position.Offset + i < Len(self.input) - 1
                   THEN self.position.Offset + i
                   ELSE Len(self.input) - 1
         IN  [input |-> SubSeq(self.input, lo + 1, hi + 1), ok |-> TRUE]

\* the character with index Offset, after a check of the byte length
Next(self) ==
    IF ByteLen(self.input) < self.position.Offset + 1
    THEN [c |-> 0, ok |-> FALSE]
    ELSE IF self.position.Offset \in 0..(Len(self.input) - 1)
         THEN [c |-> self.input[self.position.Offset + 1], ok |-> TRUE]
         ELSE [c |-> 0, ok |-> FALSE]

Pop(self, i) ==
    [self EXCEPT !.position.Offset = @ + i,
                 !.trace = IF i # 0 THEN @ \cup {"Pop"} ELSE @]

Push(self, i) ==
    [self EXCEPT !.position.Offset = @ - i,
                 !.trace = IF i # 0 THEN @ \cup {"Push"} ELSE @]

GetPosition(self) == self.position

SetPosition(self, pos) ==
    [self EXCEPT !.position = pos,
                 !.trace = IF pos.Offset # self.position.Offset
                           THEN @ \cup {"SetPosition"} ELSE @]

GetSpec(self) == self.spec

(***************************************************************************)
(* Invoking a parser value on a vessel.  A result is the parser's Output   *)
(* and match flag and the vessel as the call left it; div marks a call     *)
(* that never returns (a loop of the parser that does not end).            *)
(***************************************************************************)
Ret(o, matched, in) == [out |-> o, ok |-> matched, in |-> in, div |-> FALSE]

Diverges(in) == [out |-> Nil, ok |-> FALSE, in |-> in, div |-> TRUE]

\* what a loop iteration can depend on: it repeats forever once this repeats
LoopKey(in) == <<in.position, in.state>>

RECURSIVE Invoke(_, _)
RECURSIVE ManyLoop(_, _, _, _)
RECURSIVE SepByLoop(_, _, _, _, _)
RECURSIVE AnyLoop(_, _, _)
RECURSIVE AllLoop(_, _, _, _)
RECURSIVE CollectLoop(_, _, _, _)

\* a Satisfy that consumes the element before it asks the predicate
SatisfyPopsFirst(check, in) ==
    LET n == Next(in) IN
    IF n.ok
    THEN IF Check(check, n.c) THEN Ret(IntOut(n.c), TRUE, Pop(in, 1))
                              ELSE Ret(Nil, FALSE, Pop(in, 1))
    ELSE Ret(Nil, FALSE, in)

\* the parser Satisfy(check) returns
SatisfyCall(check, in) ==
    LET n == Next(in) IN
    IF n.ok /\ Check(check, n.c)
    THEN Ret(IntOut(n.c), TRUE, Pop(in, 1))
    ELSE Ret(Nil, FALSE, in)

\* the for loop of Many: matches so far, seen the loop states already passed
ManyLoop(match, in, ms, seen) ==
    IF LoopKey(in) \in seen
    THEN Diverges(in)
    ELSE LET r == Invoke(match, in) IN
         IF r.div THEN r
         ELSE IF ~r.ok THEN Ret(SliceOut(ms), TRUE, r.in)
         ELSE ManyLoop(match, r.in, Append(ms, r.out), seen \cup {LoopKey(in)})

ManyCall(match, in) == ManyLoop(match, in, <<>>, {})

WhitespaceCall(in) == ManyCall(Satisfy("IsSpace"), in)

\* the parser Lexeme(match) returns: Whitespace runs whatever match returned
LexemeCall(match, in) ==
    LET r == Invoke(match, in) IN
    IF r.div THEN r
    ELSE LET w == WhitespaceCall(r.in) IN
         IF w.div THEN w ELSE Ret(r.out, r.ok, w.in)

\* the for loop of SepBy
SepByLoop(delim, match, in, ms, seen) ==
    IF LoopKey(in) \in seen
    THEN Diverges(in)
    ELSE LET r == Invoke(match, in) IN
         IF r.div THEN r
         ELSE IF ~r.ok THEN Ret(VectorOut(ms), TRUE, r.in)
         ELSE LET d == Invoke(delim, r.in) IN
              IF d.div THEN d
              ELSE IF ~d.ok THEN Ret(VectorOut(Append(ms, r.out)), TRUE, d.in)
              ELSE SepByLoop(delim, match, d.in, Append(ms, r.out),
                             seen \cup {LoopKey(in)})

SepByCall(delim, match, in) == SepByLoop(delim, match, in, <<>>, {})

\* the for loop of Any, at alternative i
AnyLoop(parsers, i, in) ==
    IF i > Len(parsers)
    THEN Ret(Nil, FALSE, in)
    ELSE LET r == Invoke(parsers[i],
                         [in EXCEPT !.altAt = @ \cup {in.position.Offset}])
         IN  IF r.div \/ r.ok THEN r ELSE AnyLoop(parsers, i + 1, r.in)

AnyCall(parsers, in) == AnyLoop(parsers, 1, in)

\* last is the named result (match, ok) as the previous parser set it
AllLoop(parsers, i, in, last) ==
    IF i > Len(parsers)
    THEN Ret(last.out, last.ok, in)
    ELSE LET r == Invoke(parsers[i], in) IN
         IF r.div \/ ~r.ok THEN r ELSE AllLoop(parsers, i + 1, r.in, r)

AllCall(parsers, in) == AllLoop(parsers, 1, in, Ret(Nil, FALSE, in))

\* the for loop of Collect, at parser i
CollectLoop(parsers, i, in, ms) ==
    IF i > Len(parsers)
    THEN Ret(VectorOut(ms), TRUE, in)
    ELSE LET r == Invoke(parsers[i], in) IN
         IF r.div THEN r
         ELSE IF ~r.ok THEN Ret(Nil, FALSE, r.in)
         ELSE CollectLoop(parsers, i + 1, r.in, Append(ms, r.out))

CollectCall(parsers, in) == CollectLoop(parsers, 1, in, <<>>)

\* the parser String(str) returns: it pops len(str), the length in bytes
StringCall(str, in) ==
    IF HasPrefix(GetInput(in), str)
    THEN Ret(StrOut(str), TRUE, Pop(in, ByteLen(str)))
    ELSE Ret(Nil, FALSE, in)

\* a Try that restores State and forgets Position
TryKeepsPosition(match, in) ==
    LET st == GetState(in)
        r  == Invoke(match, in)
    IN  IF r.div THEN r
        ELSE IF ~r.ok THEN Ret(r.out, r.ok, SetState(r.in, st))
        ELSE r

\* a Try that retreats by Push instead of restoring the saved Position
TryPushesBack(match, in) ==
    LET st  == GetState(in)
        pos == GetPosition(in)
        r   == Invoke(match, in)
    IN  IF r.div THEN r
        ELSE IF ~r.ok
             THEN Ret(r.out, r.ok,
                      Push(SetState(r.in, st), r.in.position.Offset - pos.Offset))
        ELSE r

\* the parser Try(match) returns
TryCall(match, in) ==
    LET st  == GetState(in)
        pos == GetPosition(in)
        r   == Invoke(match, in)
    IN  IF r.div THEN r
        ELSE IF ~r.ok THEN Ret(r.out, r.ok, SetPosition(SetState(r.in, st), pos))
        ELSE r

\* a Between that does not wrap its sequence in Try
BetweenNoTry(begin, end, match, in) ==
    LET r == CollectCall(<<begin, match, end>>, in) IN
    IF r.div THEN r
    ELSE IF ~r.ok THEN Ret(Nil, FALSE, r.in)
    ELSE Ret(r.out.list[2], TRUE, r.in)

\* the parser Between(begin, end, match) returns
BetweenCall(begin, end, match, in) ==
    LET r == TryCall(Collect(<<begin, match, end>>), in) IN
    IF r.div THEN r
    ELSE IF ~r.ok THEN Ret(Nil, FALSE, r.in)
    ELSE Ret(r.out.list[2], TRUE, r.in)

\* the characters of the Outputs of Satisfy parsers
Runes(l) == [k \in 1..Len(l) |-> l[k].rune]

IdentifierCall(in) ==
    LET sp == GetSpec(in)
        n  == Invoke(sp.IdentStart, in)
    IN  IF n.div THEN n
        ELSE IF ~n.ok THEN Ret(Nil, FALSE, n.in)
        ELSE LET ns == ManyCall(sp.IdentLetter, n.in) IN
             IF ns.div THEN ns
             ELSE IF ~ns.ok THEN Ret(Nil, FALSE, ns.in)
             ELSE Ret(StrOut(<<n.out.rune>> \o Runes(ns.out.list)), ns.ok, ns.in)

RCall(parser, in) == Invoke(parser, in)

SetsStateCall(st, flag, in) == Ret(Nil, flag, SetState(in, st))

\* the call p(in) of a parser value
Invoke(p, in) ==
    CASE p.op = "Satisfy"    -> SatisfyCall(p.check, in)
      [] p.op = "Whitespace" -> WhitespaceCall(in)
      [] p.op = "Lexeme"     -> LexemeCall(p.ps[1], in)
      [] p.op = "Many"       -> ManyCall(p.ps[1], in)
      [] p.op = "SepBy"      -> SepByCall(p.ps[1], p.ps[2], in)
      [] p.op = "Any"        -> AnyCall(p.ps, in)
      [] p.op = "All"        -> AllCall(p.ps, in)
      [] p.op = "Collect"    -> CollectCall(p.ps, in)
      [] p.op = "Try"        -> TryCall(p.ps[1], in)
      [] p.op = "Between"    -> BetweenCall(p.ps[1], p.ps[2], p.ps[3], in)
      [] p.op = "String"     -> StringCall(p.str, in)
      [] p.op = "Identifier" -> IdentifierCall(in)
      [] p.op = "R"          -> RCall(p.ps[1], in)
      [] p.op = "SetsState"  -> SetsStateCall(p.num, p.flag, in)

(***************************************************************************)
(* The parsers the grammar author builds and invokes.                      *)
(***************************************************************************)
\* the largest n of a Get(n)
MaxGet == 2

Checks == {"IsSpace", "IsLetter", "Always"}

Literals == {<<>>, <<97>>, <<41>>, <<233>>, <<233, 97>>}

ConsumesThenFails == All(<<Satisfy("IsLetter"), SetsState(1, FALSE)>>)

LetterClose == Collect(<<String(<<97>>), String(<<41>>)>>)

MarkedLetter == All(<<SetsState(1, TRUE), String(<<97>>)>>)

\* the sub-parsers handed to Try, Lexeme and Many
SubParsers ==
    {Satisfy("IsLetter"), String(<<97>>), String(<<233>>), String(<<>>),
     ConsumesThenFails, LetterClose, MarkedLetter,
     Many(Satisfy("IsLetter")), Symbol(<<97>>), Identifier}

Delimiters == {String(<<41>>), String(<<233>>), String(<<>>)}

Elements == {String(<<97>>), String(<<233>>), String(<<>>)}

Alternatives ==
    {String(<<97, 41>>), String(<<97, 32>>), LetterClose, String(<<233>>)}

ParserLists ==
    {<<>>} \cup {<<p>> : p \in Alternatives}
           \cup {<<p, q>> : p \in Alternatives, q \in Alternatives}

ParserSequences ==
    {<<>>, <<String(<<97>>)>>, <<String(<<97>>), String(<<41>>)>>,
     <<Satisfy("IsLetter"), SetsState(1, FALSE)>>,
     <<SetsState(1, TRUE), Symbol(<<233>>)>>}

Openers == {Symbol(<<40>>), String(<<233>>)}

Closers == {Symbol(<<41>>), String(<<233>>)}

Inners == {Identifier, Satisfy("Always"), MarkedLetter}

\* a grammar that refers to itself: nested = Any(a, Parens(R(nested))),
\* unfolded as far as an input of MaxLen characters can reach
RECURSIVE Nested(_)
Nested(depth) ==
    IF depth = 0
    THEN String(<<97>>)
    ELSE Any(<<String(<<97>>), Parens(R(Nested(depth - 1)))>>)

References == {Identifier, Nested(MaxLen)}

(***************************************************************************)
(* The state machine: a grammar author invokes parsers on one vessel, one  *)
(* call after the other.  pre is the vessel as the current call found it,  *)
(* call the parser invoked, out and ok what it returned.  A call that does *)
(* not return leaves the program in its loop for ever (pc = "hung").       *)
(***************************************************************************)
Init ==
    /\ vessel \in {NewVessel(i) : i \in Inputs}
    /\ pc = "idle"
    /\ call = NoCall
    /\ pre = vessel
    /\ out = Nil
    /\ ok = FALSE

\* invoke parser p on the vessel and run it until it returns, if it does
Start(p) ==
    /\ call' = p
    /\ pre' = vessel
    /\ LET r == Invoke(p, vessel) IN
       IF r.div
       THEN pc' = "hung" /\ UNCHANGED <<vessel, out, ok>>
       ELSE pc' = "returned" /\ vessel' = r.in /\ out' = r.out /\ ok' = r.ok

CallSatisfy ==
    /\ pc = "idle"
    /\ \E check \in Checks : Start(Satisfy(check))

CallWhitespace ==
    /\ pc = "idle"
    /\ Start(Whitespace)

CallLexeme ==
    /\ pc = "idle"
    /\ \E p \in SubParsers : Start(Lexeme(p))

CallSepBy ==
    /\ pc = "idle"
    /\ \E d \in Delimiters, p \in Elements : Start(SepBy(d, p))

CallAny ==
    /\ pc = "idle"
    /\ \E ps \in ParserLists : Start(Any(ps))

CallAll ==
    /\ pc = "idle"
    /\ \E ps \in ParserSequences : Start(All(ps))

CallCollect ==
    /\ pc = "idle"
    /\ \E ps \in ParserSequences : Start(Collect(ps))

CallBetween ==
    /\ pc = "idle"
    /\ \E b \in Openers, e \in Closers, p \in Inners : Start(Between(b, e, p))

CallParens ==
    /\ pc = "idle"
    /\ \E p \in Inners : Start(Parens(p))

CallSymbol ==
    /\ pc = "idle"
    /\ \E s \in Literals : Start(Symbol(s))

CallString ==
    /\ pc = "idle"
    /\ \E s \in Literals : Start(String(s))

CallTry ==
    /\ pc = "idle"
    /\ \E p \in SubParsers : Start(Try(p))

CallIdentifier ==
    /\ pc = "idle"
    /\ Start(Identifier)

CallR ==
    /\ pc = "idle"
    /\ \E p \in References : Start(R(p))

CallMany ==
    /\ pc = "idle"
    /\ \E p \in SubParsers : Start(Many(p))

\* the vessel's look-ahead Get(n)
CallGet ==
    /\ pc = "idle"
    /\ \E n \in 0..MaxGet :
         /\ call' = GetCall(n)
         /\ out' = StrOut(Get(vessel, n).input)
         /\ ok' = Get(vessel, n).ok
    /\ pc' = "returned"
    /\ pre' = vessel
    /\ UNCHANGED vessel

\* the vessel's look-ahead Next()
CallNext ==
    /\ pc = "idle"
    /\ call' = NextCall
    /\ out' = IntOut(Next(vessel).c)
    /\ ok' = Next(vessel).ok
    /\ pc' = "returned"
    /\ pre' = vessel
    /\ UNCHANGED vessel

\* the caller has taken the result; the vessel is ready for the next call
Discard ==
    /\ pc = "returned"
    /\ pc' = "idle"
    /\ vessel' = [vessel EXCEPT !.trace = {}, !.altAt = {}]
    /\ pre' = vessel'
    /\ call' = NoCall
    /\ out' = Nil
    /\ ok' = FALSE

NextStep ==
    \/ CallSatisfy
    \/ CallWhitespace
    \/ CallLexeme
    \/ CallMany
    \/ CallSepBy
    \/ CallAny
    \/ CallAll
    \/ CallCollect
    \/ CallBetween
    \/ CallParens
    \/ CallSymbol
    \/ CallString
    \/ CallTry
    \/ CallIdentifier
    \/ CallR
    \/ CallGet
    \/ CallNext
    \/ Discard

Spec == Init /\ [][NextStep]_vars

(***************************************************************************)
(* Properties.                                                             *)
(***************************************************************************)
Returned(op) == pc = "returned" /\ call.op = op

\* the elements of a vessel's input from its offset on
Remaining(v) ==
    IF v.position.Offset \in 0..Len(v.input)
    THEN SubSeq(v.input, v.position.Offset + 1, Len(v.input))
    ELSE <<>>

\* C1: when Try(q) returns matched = false, State and Position are those of
\* before the call, whatever q consumed or did to State; when it returns
\* matched = true, they are those q left (and the match flag is q's).
TryRestores ==
    Returned("Try") =>
        LET q == Invoke(call.ps[1], pre) IN
        /\ ok = q.ok
        /\ ~ok => vessel.position = pre.position /\ vessel.state = pre.state
        /\ ok => vessel.position = q.in.position /\ vessel.state = q.in.state

\* a failed Try whose sub-parser had consumed input and changed State
TryRestoresWitness ==
    /\ Returned("Try")
    /\ ~ok
    /\ Invoke(call.ps[1], pre).in.position.Offset > pre.position.Offset
    /\ Invoke(call.ps[1], pre).in.state # pre.state

\* C2: every alternative that Any invokes is invoked at the offset at which
\* Any itself was invoked (Any goes on to the next alternative only if the
\* failed one left the cursor unmoved).
AnyAlternativesAtSameOffset ==
    Returned("Any") => vessel.altAt \subseteq {pre.position.Offset}

\* C3: Between(begin, end, p) succeeds iff begin, p and end succeed one after
\* the other; it then returns p's output with the vessel where end left it;
\* when it fails, State and Position are those of before the call.
BetweenAtomic ==
    Returned("Between") =>
        LET b == Invoke(call.ps[1], pre)
            m == Invoke(call.ps[3], b.in)
            e == Invoke(call.ps[2], m.in)
        IN  /\ ok = (b.ok /\ m.ok /\ e.ok)
            /\ ok => /\ out = m.out
                     /\ vessel.position = e.in.position
                     /\ vessel.state = e.in.state
            /\ ~ok => vessel.position = pre.position /\ vessel.state = pre.state

\* a Between that failed at end, after begin and p had consumed input and p
\* had changed State
BetweenAtomicWitness ==
    /\ Returned("Between")
    /\ ~ok
    /\ LET b == Invoke(call.ps[1], pre)
           m == Invoke(call.ps[3], b.in)
       IN  /\ b.ok /\ m.ok
           /\ b.in.position.Offset > pre.position.Offset
           /\ m.in.position.Offset > b.in.position.Offset
           /\ m.in.state # pre.state

\* C4: String(s) succeeds iff the remaining input begins with s; it then
\* returns s and advances the offset by the number of characters of s, so
\* that what remains is the old remainder without the prefix s; when it
\* fails the offset is unchanged.
StringAdvancesByCharacters ==
    Returned("String") =>
        LET s == call.str
            rest == Remaining(pre)
        IN  /\ ok = HasPrefix(rest, s)
            /\ ok => /\ out = StrOut(s)
                     /\ vessel.position.Offset = pre.position.Offset + Len(s)
                     /\ Remaining(vessel) = SubSeq(rest, Len(s) + 1, Len(rest))
            /\ ~ok => vessel.position.Offset = pre.position.Offset

\* C5: if there is an element at the offset and the predicate holds for it,
\* Satisfy succeeds, returns it and advances the offset by 1; otherwise it
\* fails and leaves Position and State as they were.
SatisfyContract ==
    Returned("Satisfy") =>
        LET off == pre.position.Offset IN
        IF off \in 0..(Len(pre.input) - 1) /\ Check(call.check, pre.input[off + 1])
        THEN /\ ok
             /\ out = IntOut(pre.input[off + 1])
             /\ vessel.position.Offset = off + 1
        ELSE /\ ~ok
             /\ vessel.position = pre.position
             /\ vessel.state = pre.state

\* a Satisfy that succeeded behind a two-byte character
SatisfyContractWitness ==
    /\ Returned("Satisfy")
    /\ ok
    /\ pre.position.Offset > 0
    /\ pre.input[1] = 233

\* C6: Lexeme(p) returns p's output and match flag, and when p fails the
\* vessel's position is the one at which p left it.
LexemeFailureLeavesPosition ==
    Returned("Lexeme") =>
        LET p == Invoke(call.ps[1], pre) IN
        /\ out = p.out
        /\ ok = p.ok
        /\ ~ok => vessel.position = p.in.position

\* the vessels a call on the input of v can find: every offset, every State
VesselsOn(v) ==
    {[v EXCEPT !.position.Offset = o, !.state = st] :
        o \in 0..ByteLen(v.input), st \in States}

\* C7: every invocation of Many(q), q a parser that returns on every call,
\* returns, and returns matched = true.
ManyReturns ==
    (call.op = "Many" /\ \A v \in VesselsOn(pre) : ~Invoke(call.ps[1], v).div)
        => pc # "hung" /\ (pc = "returned" => ok)

\* C8: on an input of k repetitions of (a string q matches, a string d
\* matches), SepBy(d, q) invoked at offset 0 succeeds, returns the k outputs
\* of q in order and consumes the whole input, trailing delimiter included.
SepByTrailingDelimiter ==
    Returned("SepBy") =>
        LET d == call.ps[1]
            q == call.ps[2]
        IN  /\ ok
            /\ \A k \in 0..(MaxLen + MaxReps) :
                 ( /\ d.op = "String" /\ d.str # <<>>
                   /\ q.op = "String" /\ q.str # <<>>
                   /\ pre.position.Offset = 0
                   /\ pre.input = Rep(q.str \o d.str, k) )
                 => /\ out = VectorOut([i \in 1..k |-> StrOut(q.str)])
                    /\ Remaining(vessel) = <<>>

\* C9: Get(n) returns ok = true and exactly the next n elements when at
\* least n remain, ok = false when fewer remain, and consumes nothing.
GetReturnsNextN ==
    Returned("Get") =>
        LET n == call.num
            rest == Remaining(pre)
        IN  /\ Len(rest) >= n => ok /\ out = StrOut(SubSeq(rest, 1, n))
            /\ Len(rest) < n => ~ok
            /\ vessel.position = pre.position
            /\ vessel.state = pre.state

\* C10: each step that changes Position.Offset is a call of Pop or of Push.
OffsetChangesOnlyByPopPush == vessel.trace \subseteq {"Pop", "Push"}

RECURSIVE UsesTry(_)
\* whether parser p is, or is built from, a Try (Between is built on Try)
UsesTry(p) ==
    \/ p.op \in {"Try", "Between"}
    \/ \E i \in 1..Len(p.ps) : UsesTry(p.ps[i])

\* C10, amended: each step that changes Position.Offset is a call of Pop, or
\* the SetPosition by which a Try restores the Position it saved; Push is
\* never called.
OffsetChangesByPopOrRestore ==
    /\ vessel.trace \subseteq {"Pop", "SetPosition"}
    /\ "SetPosition" \in vessel.trace => UsesTry(call)

\* a call in which the offset was advanced by Pop and set back by SetPosition
OffsetChangesWitness ==
    /\ pc = "returned"
    /\ vessel.trace = {"Pop", "SetPosition"}
    /\ vessel.position.Offset = pre.position.Offset

====
